---- MODULE Spec2Model ----
(***************************************************************************)
(* Model of plugins/heuristics/pcap_stats/pcap_stats.py: the per-host      *)
(* traffic statistics (TimeRecord, MachineNode, FlowRecord) and the        *)
(* message callback analyze_pcap that routes one packet record into them.  *)
(*                                                                         *)
(* Python values are modelled as follows.                                  *)
(*   - None is the empty function <<>>.  The code only ever tests None for *)
(*     truth, where it behaves like the empty string and the empty dict.   *)
(*   - A dict is a function from its keys; a defaultdict(int) is a         *)
(*     function whose missing keys read as 0 when they are incremented.    *)
(*   - The string '%s %s' % (date, time) is the pair <<date, time>>.       *)
(*   - An exception is the name of its class; NoExc is a normal return.    *)
(*                                                                         *)
(* The state: machines is FlowRecord.machines, network_machines the global *)
(* list; log keeps one entry for each call of FlowRecord.update and raised *)
(* the exception that left the last call; answer is what the last query    *)
(* returned.  pc and frame are used where update runs statement by         *)
(* statement (SpecSteps); elsewhere a call is one step.                    *)
(***************************************************************************)
EXTENDS Integers, Sequences, FiniteSets, TLC

VARIABLES machines, network_machines, log, raised, answer, pc, frame

vars == <<machines, network_machines, log, raised, answer, pc, frame>>

\* What a whole call leaves alone: the answer of the last query, and the
\* place and the locals of a call that runs statement by statement.
aside == <<answer, pc, frame>>

(***************************************************************************)
(* Bounds of the model and the input values.                               *)
(***************************************************************************)
\* The number of calls of FlowRecord.update in one behaviour.
MaxEvents == 2

\* Ticks of the clock in one day (the width of the time-of-day field).
TicksPerDay == 2

Addr == {"a", "b", "c"}
Lengths == {1, 2}
Dates == {1, 2}
Times == {0, 1}

Fields == {"src_ip", "dest_ip", "length", "date", "time"}

None == <<>>
NoExc == "none"

Truthy(v) == v # None

(***************************************************************************)
(* Message bodies.  A body is the text of a Python literal: either the     *)
(* literal of a dict (written here as the dict) or text that does not      *)
(* parse.                                                                  *)
(***************************************************************************)
Malformed == [syntax_error |-> TRUE]

\* The instants of the packets: two that are one tick apart across midnight.
Stamps == {<<1, 1>>, <<2, 0>>}

Complete == {d \in [src_ip : Addr, dest_ip : Addr, length : Lengths,
                    date : Dates, time : Times] : <<d.date, d.time>> \in Stamps}

Without(d, k) == [x \in DOMAIN d \ {k} |-> d[x]]

\* The bodies that lack one field of a packet record.
Template == {d \in Complete : d.length = 1 /\ d.date = 1}

Incomplete == {Without(d, k) : d \in Template, k \in Fields}

Bodies == Complete \cup Incomplete \cup {Malformed}

\* The pcap argument of a direct call of FlowRecord.update: a caller that
\* has no packet record passes None.
Pcaps == {None}

literal_eval(body) ==
    IF body = Malformed
    THEN [exc |-> "SyntaxError", value |-> None]
    ELSE [exc |-> NoExc, value |-> body]

(***************************************************************************)
(* class TimeRecord                                                        *)
(***************************************************************************)
TimeRecord ==
    [first_sent |-> None, first_received |-> None,
     last_sent |-> None, last_received |-> None]

\* update_sent with the test of first_sent repeated for last_sent.
update_sent_LastOnce(tr, time) ==
    [tr EXCEPT !.first_sent = IF ~Truthy(@) THEN time ELSE @,
               !.last_sent = IF ~Truthy(@) THEN time ELSE @]

update_sent(tr, time) ==
    [tr EXCEPT !.first_sent = IF ~Truthy(@) THEN time ELSE @,
               !.last_sent = time]

\* update_received that sets last_sent as well as last_received.
update_received_AlsoSent(tr, time) ==
    [tr EXCEPT !.first_received = IF ~Truthy(@) THEN time ELSE @,
               !.last_received = time,
               !.last_sent = time]

update_received(tr, time) ==
    [tr EXCEPT !.first_received = IF ~Truthy(@) THEN time ELSE @,
               !.last_received = time]

\* '%s %s' % (date, time)
Format(date, time) == <<date, time>>

\* datetime.strptime(s, '%Y-%m-%d %H:%M:%S.%f'), in ticks; a TypeError for None.
strptime(s) ==
    IF s = None
    THEN [exc |-> "TypeError", value |-> 0]
    ELSE [exc |-> NoExc, value |-> s[1] * TicksPerDay + s[2]]

\* str(timedelta): a timedelta is normalised to whole days, which may be
\* negative, and a non-negative remainder; the text shows both.
timedelta_str(delta) == <<delta \div TicksPerDay, delta % TicksPerDay>>

Elapsed(first, latest) ==
    IF strptime(first).exc # NoExc
    THEN [kind |-> "raise", value |-> <<strptime(first).exc>>]
    ELSE IF strptime(latest).exc # NoExc
    THEN [kind |-> "raise", value |-> <<strptime(latest).exc>>]
    ELSE [kind |-> "return",
          value |-> timedelta_str(strptime(latest).value - strptime(first).value)]

\* get_elapsed_time_sent with the two times exchanged.
get_elapsed_time_sent_Exchanged(tr) == Elapsed(tr.last_sent, tr.first_sent)

get_elapsed_time_sent(tr) == Elapsed(tr.first_sent, tr.last_sent)

get_elapsed_time_received(tr) == Elapsed(tr.first_received, tr.last_received)

(***************************************************************************)
(* class MachineNode                                                       *)
(***************************************************************************)
MachineNode(addr) ==
    [machine_addr |-> addr,
     num_packets |-> 0,
     packet_lengths |-> <<>>,
     machines_sent_to |-> <<>>,
     machines_received_from |-> <<>>,
     time_record |-> TimeRecord]

\* d[k] += 1 on a defaultdict(int)
Increment(d, k) ==
    IF k \in DOMAIN d THEN [d EXCEPT ![k] = @ + 1] ELSE d @@ (k :> 1)

\* add_pcap_record with the length kept only for a packet sent.
add_pcap_record_SentLengths(node, length, addr, receiving, pcap) ==
    LET counted == [node EXCEPT !.num_packets = @ + 1,
                                !.packet_lengths =
                                    IF receiving THEN @ ELSE Append(@, length)]
        tabled == IF receiving
                  THEN [counted EXCEPT !.machines_received_from = Increment(@, addr)]
                  ELSE [counted EXCEPT !.machines_sent_to = Increment(@, addr)]
    IN  IF ~Truthy(pcap)
        THEN [node |-> tabled, exc |-> NoExc]
        ELSE IF "date" \notin DOMAIN pcap \/ "time" \notin DOMAIN pcap
        THEN [node |-> tabled, exc |-> "KeyError"]
        ELSE [node |-> [tabled EXCEPT !.time_record =
                            IF receiving
                            THEN update_received(@, Format(pcap.date, pcap.time))
                            ELSE update_sent(@, Format(pcap.date, pcap.time))],
              exc |-> NoExc]

\* add_pcap_record with update_sent and update_received exchanged.
add_pcap_record_Swapped(node, length, addr, receiving, pcap) ==
    LET counted == [node EXCEPT !.num_packets = @ + 1,
                                !.packet_lengths = Append(@, length)]
        tabled == IF receiving
                  THEN [counted EXCEPT !.machines_received_from = Increment(@, addr)]
                  ELSE [counted EXCEPT !.machines_sent_to = Increment(@, addr)]
    IN  IF ~Truthy(pcap)
        THEN [node |-> tabled, exc |-> NoExc]
        ELSE IF "date" \notin DOMAIN pcap \/ "time" \notin DOMAIN pcap
        THEN [node |-> tabled, exc |-> "KeyError"]
        ELSE [node |-> [tabled EXCEPT !.time_record =
                            IF receiving
                            THEN update_sent(@, Format(pcap.date, pcap.time))
                            ELSE update_received(@, Format(pcap.date, pcap.time))],
              exc |-> NoExc]

\* add_pcap_record that puts the length at the head of packet_lengths.
add_pcap_record_Prepend(node, length, addr, receiving, pcap) ==
    LET counted == [node EXCEPT !.num_packets = @ + 1,
                                !.packet_lengths = <<length>> \o @]
        tabled == IF receiving
                  THEN [counted EXCEPT !.machines_received_from = Increment(@, addr)]
                  ELSE [counted EXCEPT !.machines_sent_to = Increment(@, addr)]
    IN  IF ~Truthy(pcap)
        THEN [node |-> tabled, exc |-> NoExc]
        ELSE IF "date" \notin DOMAIN pcap \/ "time" \notin DOMAIN pcap
        THEN [node |-> tabled, exc |-> "KeyError"]
        ELSE [node |-> [tabled EXCEPT !.time_record =
                            IF receiving
                            THEN update_received(@, Format(pcap.date, pcap.time))
                            ELSE update_sent(@, Format(pcap.date, pcap.time))],
              exc |-> NoExc]

\* The node after the call, and the exception the call ended with.  The
\* KeyError of pcap['date'] or pcap['time'] is raised after the counters
\* have been changed.
add_pcap_record(node, length, addr, receiving, pcap) ==
    LET counted == [node EXCEPT !.num_packets = @ + 1,
                                !.packet_lengths = Append(@, length)]
        tabled == IF receiving
                  THEN [counted EXCEPT !.machines_received_from = Increment(@, addr)]
                  ELSE [counted EXCEPT !.machines_sent_to = Increment(@, addr)]
    IN  IF ~Truthy(pcap)
        THEN [node |-> tabled, exc |-> NoExc]
        ELSE IF "date" \notin DOMAIN pcap \/ "time" \notin DOMAIN pcap
        THEN [node |-> tabled, exc |-> "KeyError"]
        ELSE [node |-> [tabled EXCEPT !.time_record =
                            IF receiving
                            THEN update_received(@, Format(pcap.date, pcap.time))
                            ELSE update_sent(@, Format(pcap.date, pcap.time))],
              exc |-> NoExc]

get_flow_duration(node, direction) ==
    IF direction = "sent"
    THEN get_elapsed_time_sent(node.time_record)
    ELSE get_elapsed_time_received(node.time_record)

RECURSIVE SumSeq(_)
SumSeq(s) == IF s = <<>> THEN 0 ELSE Head(s) + SumSeq(Tail(s))

RECURSIVE SumSquares(_)
SumSquares(s) == IF s = <<>> THEN 0 ELSE Head(s) * Head(s) + SumSquares(Tail(s))

\* statistics.mean: the quotient sum / count, kept as the pair of the two.
get_mean_packet_len(node) ==
    IF Len(node.packet_lengths) < 1
    THEN [kind |-> "raise", value |-> <<"StatisticsError">>]
    ELSE [kind |-> "return",
          value |-> <<SumSeq(node.packet_lengths), Len(node.packet_lengths)>>]

\* statistics.stdev inside try/except: the square root of the sample
\* variance, kept as the numerator and denominator of the variance.
get_packet_len_std_dev(node) ==
    LET n == Len(node.packet_lengths)
        s == SumSeq(node.packet_lengths)
    IN  IF n < 2
        THEN [kind |-> "return", value |-> <<"Error retrieving standard deviation.">>]
        ELSE [kind |-> "return",
              value |-> <<n * SumSquares(node.packet_lengths) - s * s, n * (n - 1)>>]

\* get_machines_sent_to reading the other dict.
get_machines_sent_to_Received(node) ==
    {<<m, node.machines_received_from[m]>> : m \in DOMAIN node.machines_received_from}

\* The pairs the generator yields, as a set: the order is that of the dict.
get_machines_sent_to(node) ==
    {<<m, node.machines_sent_to[m]>> : m \in DOMAIN node.machines_sent_to}

get_machines_received_from(node) ==
    {<<m, node.machines_received_from[m]>> : m \in DOMAIN node.machines_received_from}

(***************************************************************************)
(* class FlowRecord                                                        *)
(***************************************************************************)
\* The branch without its test of `not in self.machines`: a new node is
\* made for every record and takes the place of the one in the dict.
Record_Fresh(ms, addr, peer, receiving, length, pcap) ==
    LET r == add_pcap_record(MachineNode(addr), length, peer, receiving, pcap)
    IN  IF r.exc # NoExc
        THEN [machines |-> ms, exc |-> r.exc]
        ELSE [machines |-> [a \in DOMAIN ms \cup {addr} |->
                               IF a = addr THEN r.node ELSE ms[a]],
              exc |-> NoExc]

\* One branch of update: the record of one endpoint.  A new node enters
\* the dict only after add_pcap_record has returned.
Record(ms, addr, peer, receiving, length, pcap) ==
    IF addr \notin DOMAIN ms
    THEN LET r == add_pcap_record(MachineNode(addr), length, peer, receiving, pcap)
         IN  IF r.exc # NoExc
             THEN [machines |-> ms, exc |-> r.exc]
             ELSE [machines |-> ms @@ (addr :> r.node), exc |-> NoExc]
    ELSE LET r == add_pcap_record(ms[addr], length, peer, receiving, pcap)
         IN  [machines |-> [ms EXCEPT ![addr] = r.node], exc |-> r.exc]

\* update with "elif d_in_net": the destination is skipped when the source
\* is in the network.
update_Elif(ms, src_addr, s_in_net, dest_addr, d_in_net, length, pcap) ==
    IF s_in_net
    THEN Record(ms, src_addr, dest_addr, FALSE, length, pcap)
    ELSE IF d_in_net
    THEN Record(ms, dest_addr, src_addr, TRUE, length, pcap)
    ELSE [machines |-> ms, exc |-> NoExc]

\* update that makes the node of the source before it tests s_in_net.
update_NodeFirst(ms, src_addr, s_in_net, dest_addr, d_in_net, length, pcap) ==
    LET made == IF src_addr \in DOMAIN ms
                THEN ms
                ELSE ms @@ (src_addr :> MachineNode(src_addr))
        s == IF s_in_net
             THEN Record(made, src_addr, dest_addr, FALSE, length, pcap)
             ELSE [machines |-> made, exc |-> NoExc]
    IN  IF s.exc # NoExc
        THEN s
        ELSE IF d_in_net
        THEN Record(s.machines, dest_addr, src_addr, TRUE, length, pcap)
        ELSE s

\* update that records the destination whenever either flag is set.
update_EitherFlag(ms, src_addr, s_in_net, dest_addr, d_in_net, length, pcap) ==
    LET s == IF s_in_net
             THEN Record(ms, src_addr, dest_addr, FALSE, length, pcap)
             ELSE [machines |-> ms, exc |-> NoExc]
    IN  IF s.exc # NoExc
        THEN s
        ELSE IF s_in_net \/ d_in_net
        THEN Record(s.machines, dest_addr, src_addr, TRUE, length, pcap)
        ELSE s

update(ms, src_addr, s_in_net, dest_addr, d_in_net, length, pcap) ==
    LET s == IF s_in_net
             THEN Record(ms, src_addr, dest_addr, FALSE, length, pcap)
             ELSE [machines |-> ms, exc |-> NoExc]
    IN  IF s.exc # NoExc
        THEN s
        ELSE IF d_in_net
        THEN Record(s.machines, dest_addr, src_addr, TRUE, length, pcap)
        ELSE s

\* get_machine_node on a dict that makes the node it does not find.
get_machine_node_Default(ms, addr) ==
    IF addr \notin DOMAIN ms
    THEN [machines |-> ms @@ (addr :> MachineNode(addr)), value |-> MachineNode(addr)]
    ELSE [machines |-> ms, value |-> ms[addr]]

\* The dict after the call and the value returned.
get_machine_node(ms, addr) ==
    IF addr \notin DOMAIN ms
    THEN [machines |-> ms, value |-> None]
    ELSE [machines |-> ms, value |-> ms[addr]]

(***************************************************************************)
(* def analyze_pcap                                                        *)
(***************************************************************************)
\* analyze_pcap whose third branch passes True for the source as well.
Route_ThirdBranch(pcap, net) ==
    LET no_call(e) == [called |-> FALSE, exc |-> e, s_in_net |-> FALSE, d_in_net |-> FALSE]
        call(s, d) == IF "length" \notin DOMAIN pcap
                      THEN no_call("KeyError")
                      ELSE [called |-> TRUE, exc |-> NoExc, s_in_net |-> s, d_in_net |-> d]
    IN  IF "src_ip" \notin DOMAIN pcap
        THEN no_call("KeyError")
        ELSE IF pcap.src_ip \in net
        THEN IF "dest_ip" \notin DOMAIN pcap
             THEN no_call("KeyError")
             ELSE IF pcap.dest_ip \in net
             THEN call(TRUE, TRUE)
             ELSE call(TRUE, FALSE)
        ELSE IF "dest_ip" \notin DOMAIN pcap
        THEN no_call("KeyError")
        ELSE IF pcap.dest_ip \in net
        THEN call(TRUE, TRUE)
        ELSE no_call(NoExc)

\* The call of flow.update that analyze_pcap makes for a parsed body, or
\* the exception it ends with before the call.  called is FALSE when no
\* call is made.
Route(pcap, net) ==
    LET no_call(e) == [called |-> FALSE, exc |-> e, s_in_net |-> FALSE, d_in_net |-> FALSE]
        call(s, d) == IF "length" \notin DOMAIN pcap
                      THEN no_call("KeyError")
                      ELSE [called |-> TRUE, exc |-> NoExc, s_in_net |-> s, d_in_net |-> d]
    IN  IF "src_ip" \notin DOMAIN pcap
        THEN no_call("KeyError")
        ELSE IF pcap.src_ip \in net
        THEN IF "dest_ip" \notin DOMAIN pcap
             THEN no_call("KeyError")
             ELSE IF pcap.dest_ip \in net
             THEN call(TRUE, TRUE)
             ELSE call(TRUE, FALSE)
        ELSE IF "dest_ip" \notin DOMAIN pcap
        THEN no_call("KeyError")
        ELSE IF pcap.dest_ip \in net
        THEN call(FALSE, TRUE)
        ELSE no_call(NoExc)

\* A record of one call of FlowRecord.update, kept in the log.
Entry(caller, src, s_in, dest, d_in, length, pcap, exc) ==
    [caller |-> caller, src |-> src, s_in_net |-> s_in, dest |-> dest, d_in_net |-> d_in,
     length |-> length, pcap |-> pcap, exc |-> exc]

Init ==
    /\ machines = <<>>
    /\ network_machines = {}
    /\ log = <<>>
    /\ raised = NoExc
    /\ answer = [op |-> "none", addr |-> "", value |-> None]
    /\ pc = "idle"
    /\ frame = None

\* analyze_pcap that also takes for a network machine every address the
\* flow has a node for.
analyze_pcap_Sticky(body) ==
    /\ LET parsed == literal_eval(body)
           pcap == parsed.value
           route == Route(pcap, network_machines \cup DOMAIN machines)
       IN  IF parsed.exc # NoExc
           THEN /\ raised' = parsed.exc
                /\ UNCHANGED <<machines, log>>
           ELSE IF ~route.called
           THEN /\ raised' = route.exc
                /\ UNCHANGED <<machines, log>>
           ELSE LET r == update(machines, pcap.src_ip, route.s_in_net,
                                pcap.dest_ip, route.d_in_net, pcap.length, pcap)
                IN  /\ machines' = r.machines
                    /\ log' = Append(log, Entry("analyze_pcap", pcap.src_ip,
                                                route.s_in_net, pcap.dest_ip,
                                                route.d_in_net, pcap.length,
                                                pcap, r.exc))
                    /\ raised' = r.exc
    /\ UNCHANGED <<network_machines, aside>>

\* The callback of the message queue.  raised is the exception that leaves it.
analyze_pcap(body) ==
    /\ LET parsed == literal_eval(body)
           pcap == parsed.value
           route == Route(pcap, network_machines)
       IN  IF parsed.exc # NoExc
           THEN /\ raised' = parsed.exc
                /\ UNCHANGED <<machines, log>>
           ELSE IF ~route.called
           THEN /\ raised' = route.exc
                /\ UNCHANGED <<machines, log>>
           ELSE LET r == update(machines, pcap.src_ip, route.s_in_net,
                                pcap.dest_ip, route.d_in_net, pcap.length, pcap)
                IN  /\ machines' = r.machines
                    /\ log' = Append(log, Entry("analyze_pcap", pcap.src_ip,
                                                route.s_in_net, pcap.dest_ip,
                                                route.d_in_net, pcap.length,
                                                pcap, r.exc))
                    /\ raised' = r.exc
    /\ UNCHANGED <<network_machines, aside>>

\* A direct call of FlowRecord.update, as a test or another caller makes it.
Update(src, s_in, dest, d_in, length, pcap) ==
    /\ LET r == update(machines, src, s_in, dest, d_in, length, pcap)
       IN  /\ machines' = r.machines
           /\ log' = Append(log, Entry("direct", src, s_in, dest, d_in, length, pcap, r.exc))
           /\ raised' = r.exc
    /\ UNCHANGED <<network_machines, aside>>

\* The owner of network_machines adds or removes an address.
AddMachine(addr) ==
    /\ addr \notin network_machines
    /\ network_machines' = network_machines \cup {addr}
    /\ UNCHANGED <<machines, log, raised, aside>>

RemoveMachine(addr) ==
    /\ addr \in network_machines
    /\ network_machines' = network_machines \ {addr}
    /\ UNCHANGED <<machines, log, raised, aside>>

\* A reader asks the flow for the node of an address.
GetMachineNode(addr) ==
    /\ LET r == get_machine_node(machines, addr)
       IN  /\ machines' = r.machines
           /\ answer' = [op |-> "get_machine_node", addr |-> addr, value |-> r.value]
    /\ UNCHANGED <<network_machines, log, raised, pc, frame>>

Next ==
    \/ /\ Len(log) < MaxEvents
       /\ \E body \in Bodies : analyze_pcap(body)
    \/ /\ Len(log) < MaxEvents
       /\ \E src \in Addr, dest \in Addr, s_in \in BOOLEAN, d_in \in BOOLEAN,
             length \in Lengths, pcap \in Pcaps :
               Update(src, s_in, dest, d_in, length, pcap)
    \/ \E addr \in Addr : AddMachine(addr)
    \/ \E addr \in Addr : RemoveMachine(addr)

Spec == Init /\ [][Next]_vars

(***************************************************************************)
(* The flow of complete packet records under a fixed network: the list of  *)
(* network machines is filled before the first packet and every body is a  *)
(* complete record.                                                        *)
(***************************************************************************)
\* The number of packets in one behaviour of SpecFlow.
MaxFlow == 3

NextFlow ==
    \/ /\ Len(log) < MaxFlow
       /\ \E body \in Complete : analyze_pcap(body)
    \/ /\ log = <<>>
       /\ \E addr \in Addr : AddMachine(addr)

SpecFlow == Init /\ [][NextFlow]_vars

(***************************************************************************)
(* The flow with a reader: complete packet records under a fixed network,  *)
(* and queries for the node of an address at any time.                     *)
(***************************************************************************)
NextQuery ==
    \/ /\ Len(log) < MaxEvents
       /\ \E body \in Complete : analyze_pcap(body)
    \/ /\ log = <<>>
       /\ \E addr \in Addr : AddMachine(addr)
    \/ \E addr \in Addr : GetMachineNode(addr)

SpecQuery == Init /\ [][NextQuery]_vars

(***************************************************************************)
(* FlowRecord.update statement by statement.  The file takes no lock, so   *)
(* whoever reads a node from another thread can see the flow between any   *)
(* two statements of a call: here every statement that writes a field is a *)
(* step.  frame holds the arguments and locals of the call in progress:    *)
(* receiving tells which branch of update runs, fresh whether the branch   *)
(* made a new node, node is that new node until it enters the dict, and    *)
(* start is the dict as the call found it.  The step after a line is named *)
(* by the line of pcap_stats.py.                                           *)
(***************************************************************************)
ThisAddr == IF frame.receiving THEN frame.dest_addr ELSE frame.src_addr

Peer == IF frame.receiving THEN frame.src_addr ELSE frame.dest_addr

\* The node add_pcap_record runs on: the local one, or the one in the dict.
Node == IF frame.fresh THEN frame.node ELSE machines[ThisAddr]

\* An assignment to a field of that node.
Store(n) ==
    IF frame.fresh
    THEN /\ frame' = [frame EXCEPT !.node = n]
         /\ machines' = machines
    ELSE /\ machines' = [machines EXCEPT ![ThisAddr] = n]
         /\ frame' = frame

\* The head of a branch that puts a new node in the dict at once and has
\* add_pcap_record run on the node in the dict.
Enter_InsertFirst(f, receiving, ms) ==
    LET addr == IF receiving THEN f.dest_addr ELSE f.src_addr
    IN  [machines |-> IF addr \notin DOMAIN ms
                      THEN ms @@ (addr :> MachineNode(addr))
                      ELSE ms,
         frame |-> [f EXCEPT !.receiving = receiving, !.fresh = FALSE, !.node = None]]

\* The head of a branch of update: the test `not in self.machines` and,
\* for an address without node, node = MachineNode(addr), a local.
Enter(f, receiving, ms) ==
    LET addr == IF receiving THEN f.dest_addr ELSE f.src_addr
    IN  [machines |-> ms,
         frame |-> [f EXCEPT !.receiving = receiving,
                             !.fresh = addr \notin DOMAIN ms,
                             !.node = IF addr \notin DOMAIN ms
                                      THEN MachineNode(addr)
                                      ELSE None]]

\* Control enters add_pcap_record.
Goto(e) ==
    /\ machines' = e.machines
    /\ frame' = e.frame
    /\ pc' = "L147"
    /\ UNCHANGED <<log, raised>>

\* update returns, or an exception leaves it; ms is the dict it leaves.
Return(f, ms, exc) ==
    /\ machines' = ms
    /\ log' = Append(log, Entry("analyze_pcap", f.src_addr, f.s_in_net, f.dest_addr,
                                f.d_in_net, f.length, f.pcap, exc))
    /\ raised' = exc
    /\ pc' = "idle"
    /\ frame' = None

\* The end of a branch: the branch of the destination follows that of the
\* source; ms is the dict the branch leaves.
AfterBranch(ms) ==
    IF ~frame.receiving /\ frame.d_in_net
    THEN Goto(Enter(frame, TRUE, ms))
    ELSE Return(frame, ms, NoExc)

\* analyze_pcap up to the first statement of add_pcap_record.
Dispatch(body) ==
    /\ pc = "idle"
    /\ LET parsed == literal_eval(body)
           pcap == parsed.value
           route == Route(pcap, network_machines)
       IN  IF parsed.exc # NoExc
           THEN /\ raised' = parsed.exc
                /\ UNCHANGED <<machines, log, pc, frame>>
           ELSE IF ~route.called
           THEN /\ raised' = route.exc
                /\ UNCHANGED <<machines, log, pc, frame>>
           ELSE LET f == [src_addr |-> pcap.src_ip, s_in_net |-> route.s_in_net,
                          dest_addr |-> pcap.dest_ip, d_in_net |-> route.d_in_net,
                          length |-> pcap.length, pcap |-> pcap,
                          receiving |-> FALSE, fresh |-> FALSE, node |-> None,
                          start |-> machines]
                IN  IF f.s_in_net
                    THEN Goto(Enter(f, FALSE, machines))
                    ELSE IF f.d_in_net
                    THEN Goto(Enter(f, TRUE, machines))
                    ELSE Return(f, machines, NoExc)
    /\ UNCHANGED <<network_machines, answer>>

\* self.num_packets += 1
Step147 ==
    /\ pc = "L147"
    /\ Store([Node EXCEPT !.num_packets = @ + 1])
    /\ pc' = "L148"
    /\ UNCHANGED <<network_machines, log, raised, answer>>

\* self.packet_lengths.append(length)
Step148 ==
    /\ pc = "L148"
    /\ Store([Node EXCEPT !.packet_lengths = Append(@, frame.length)])
    /\ pc' = "L149"
    /\ UNCHANGED <<network_machines, log, raised, answer>>

\* self.machines_received_from[addr] += 1, or self.machines_sent_to[addr] += 1
Step149 ==
    /\ pc = "L149"
    /\ Store(IF frame.receiving
             THEN [Node EXCEPT !.machines_received_from = Increment(@, Peer)]
             ELSE [Node EXCEPT !.machines_sent_to = Increment(@, Peer)])
    /\ pc' = "L151"
    /\ UNCHANGED <<network_machines, log, raised, answer>>

\* if pcap: self.time_record.update_...(pcap['date'] + ' ' + pcap['time'])
Step151 ==
    /\ pc = "L151"
    /\ IF ~Truthy(frame.pcap)
       THEN IF frame.fresh
            THEN /\ pc' = "L236"
                 /\ UNCHANGED <<machines, frame, log, raised>>
            ELSE AfterBranch(machines)
       ELSE IF "date" \notin DOMAIN frame.pcap \/ "time" \notin DOMAIN frame.pcap
       THEN Return(frame, machines, "KeyError")
       ELSE LET time == Format(frame.pcap.date, frame.pcap.time)
                n == [Node EXCEPT !.time_record =
                          IF frame.receiving
                          THEN update_received(@, time)
                          ELSE update_sent(@, time)]
            IN  IF frame.fresh
                THEN /\ frame' = [frame EXCEPT !.node = n]
                     /\ pc' = "L236"
                     /\ UNCHANGED <<machines, log, raised>>
                ELSE AfterBranch([machines EXCEPT ![ThisAddr] = n])
    /\ UNCHANGED <<network_machines, answer>>

\* self.machines[addr] = node
Step236 ==
    /\ pc = "L236"
    /\ AfterBranch(machines @@ (ThisAddr :> frame.node))
    /\ UNCHANGED <<network_machines, answer>>

NextSteps ==
    \/ /\ Len(log) < MaxEvents
       /\ \E body \in Bodies : Dispatch(body)
    \/ Step147
    \/ Step148
    \/ Step149
    \/ Step151
    \/ Step236
    \/ /\ log = <<>>
       /\ pc = "idle"
       /\ \E addr \in Addr : AddMachine(addr)

SpecSteps == Init /\ [][NextSteps]_vars

(***************************************************************************)
(* What the properties read off a state.                                   *)
(***************************************************************************)
RECURSIVE SumCounts(_)
SumCounts(d) ==
    IF DOMAIN d = {}
    THEN 0
    ELSE LET k == CHOOSE x \in DOMAIN d : TRUE
         IN  d[k] + SumCounts([x \in DOMAIN d \ {k} |-> d[x]])

Registered == DOMAIN machines

PacketCount(ms, h) == IF h \in DOMAIN ms THEN ms[h].num_packets ELSE 0

SentTo(ms, h, p) ==
    IF h \in DOMAIN ms /\ p \in DOMAIN ms[h].machines_sent_to
    THEN ms[h].machines_sent_to[p]
    ELSE 0

ReceivedFrom(ms, h, p) ==
    IF h \in DOMAIN ms /\ p \in DOMAIN ms[h].machines_received_from
    THEN ms[h].machines_received_from[p]
    ELSE 0

Calls == 1..Len(log)

HasStamp(pcap) == Truthy(pcap) /\ "date" \in DOMAIN pcap /\ "time" \in DOMAIN pcap

\* The bodies from which analyze_pcap can read both addresses and the length.
Routable == {b \in Bodies : {"src_ip", "dest_ip", "length"} \subseteq DOMAIN b}

(***************************************************************************)
(* C1.  In every reachable state, every registered node has                *)
(* num_packets = the number of packet_lengths = the sum of its             *)
(* machines_sent_to counts plus the sum of its machines_received_from      *)
(* counts.                                                                 *)
(***************************************************************************)
C1_CountsAgree ==
    \A h \in Registered :
        /\ machines[h].num_packets = Len(machines[h].packet_lengths)
        /\ machines[h].num_packets =
              SumCounts(machines[h].machines_sent_to)
              + SumCounts(machines[h].machines_received_from)

\* A node that has sent and received, after a call that raised.
C1_Witness ==
    \E h \in Registered :
        /\ machines[h].num_packets >= 2
        /\ DOMAIN machines[h].machines_sent_to # {}
        /\ DOMAIN machines[h].machines_received_from # {}
        /\ raised = "KeyError"

\* The call of FlowRecord.update that a step makes: the entry it appends.
Called == log' # log

NewCall == log'[Len(log')]

(***************************************************************************)
(* C2.  A step of analyze_pcap on a body from which both addresses and the *)
(* length can be read leaves the machines, and the exception, that         *)
(* update(src, src in network, dest, dest in network, length, pcap) gives, *)
(* and a step that calls update for no packet leaves the machines as they  *)
(* were.  For a complete record the source's count of packets sent to the  *)
(* destination grows by one if the source is in the network and by nothing *)
(* otherwise, and the destination's count of packets received from the     *)
(* source grows by one if the destination is in the network and by nothing *)
(* otherwise.                                                              *)
(***************************************************************************)
C2_DispatchIsUpdate ==
    [][/\ ~Called => machines' = machines
       /\ (Called /\ NewCall.caller = "analyze_pcap") =>
            LET body == NewCall.pcap
                src == body.src_ip
                dest == body.dest_ip
                r == update(machines, src, src \in network_machines,
                            dest, dest \in network_machines, body.length, body)
            IN  /\ machines' = r.machines
                /\ raised' = r.exc
                /\ HasStamp(body) =>
                     /\ SentTo(machines', src, dest) - SentTo(machines, src, dest)
                          = IF src \in network_machines THEN 1 ELSE 0
                     /\ ReceivedFrom(machines', dest, src) - ReceivedFrom(machines, dest, src)
                          = IF dest \in network_machines THEN 1 ELSE 0]_vars

\* Two packets have been routed, one whose source alone is in the network
\* and one whose destination alone is.
C2_Witness ==
    \E i \in Calls, j \in Calls :
        /\ log[i].caller = "analyze_pcap" /\ log[i].s_in_net /\ ~log[i].d_in_net
        /\ log[j].caller = "analyze_pcap" /\ ~log[j].s_in_net /\ log[j].d_in_net
        /\ HasStamp(log[i].pcap) /\ HasStamp(log[j].pcap)
        /\ SentTo(machines, log[i].src, log[i].dest) = 1
        /\ ReceivedFrom(machines, log[j].dest, log[j].src) = 1

(***************************************************************************)
(* C3.  When every call so far came from analyze_pcap, a step of           *)
(* analyze_pcap on a body that does not parse, or that lacks one of        *)
(* src_ip, dest_ip, length, date and time, leaves machines as it was.  (A  *)
(* body without src_ip, dest_ip or length, and one that does not parse,    *)
(* ends analyze_pcap before update is called.)                             *)
(***************************************************************************)
C3_IncompleteDropped ==
    [][(\A i \in 1..Len(log') : log'[i].caller = "analyze_pcap") =>
          /\ ~Called => machines' = machines
          /\ (Called /\ ~HasStamp(NewCall.pcap)) => machines' = machines]_vars

(***************************************************************************)
(* C4.  In SpecFlow, when every packet so far had its source and its       *)
(* destination in the network, num_packets of each machine A of the        *)
(* network is the number of packets of which A is the source plus the      *)
(* number of packets of which A is the destination: a packet from A to     *)
(* itself counts twice.                                                    *)
(***************************************************************************)
BothInNet == \A i \in Calls : log[i].s_in_net /\ log[i].d_in_net

C4_PacketCount ==
    BothInNet =>
        \A A \in network_machines :
            PacketCount(machines, A) =
                Cardinality({i \in Calls : log[i].src = A})
                + Cardinality({i \in Calls : log[i].dest = A})

\* Three packets inside the network, one of them from a machine to itself.
C4_Witness ==
    /\ Len(log) = 3
    /\ BothInNet
    /\ \E i \in Calls : log[i].src = log[i].dest
    /\ \E i \in Calls : log[i].src # log[i].dest

\* C4 as the specification has it: num_packets of A is the number of packets
\* of which A is the source or the destination.
C4_Original ==
    BothInNet =>
        \A A \in network_machines :
            PacketCount(machines, A) =
                Cardinality({i \in Calls : log[i].src = A \/ log[i].dest = A})

(***************************************************************************)
(* C5.  A step that calls update with neither flag set, and a step of      *)
(* analyze_pcap for a packet of which neither address is in the network,   *)
(* leaves machines as it was: no node is added and no node is changed.     *)
(***************************************************************************)
C5_NeitherIsNoOp ==
    [][/\ ~Called => machines' = machines
       /\ (Called /\ ~NewCall.s_in_net /\ ~NewCall.d_in_net) => machines' = machines
       /\ (Called /\ NewCall.caller = "analyze_pcap"
             /\ NewCall.src \notin network_machines
             /\ NewCall.dest \notin network_machines) => machines' = machines]_vars

\* update has been called with neither flag set while a node was registered.
C5_Witness ==
    /\ Len(log) = 2
    /\ ~log[2].s_in_net /\ ~log[2].d_in_net
    /\ Registered # {}

(***************************************************************************)
(* C6.  A step that calls update with exactly one flag set, for two        *)
(* different addresses neither of which is registered, and with a pcap     *)
(* that is absent or has its date and time, adds exactly the node of the   *)
(* address whose flag is set, and the other address is no key afterwards.  *)
(* In every state each registered address is the source of an earlier call *)
(* with s_in_net set or the destination of one with d_in_net set.          *)
(***************************************************************************)
C6_OnlyInNetRegistered ==
    [][/\ (/\ Called
           /\ NewCall.s_in_net # NewCall.d_in_net
           /\ NewCall.src # NewCall.dest
           /\ ~Truthy(NewCall.pcap) \/ HasStamp(NewCall.pcap)
           /\ NewCall.src \notin DOMAIN machines
           /\ NewCall.dest \notin DOMAIN machines) =>
             LET inside == IF NewCall.s_in_net THEN NewCall.src ELSE NewCall.dest
                 outside == IF NewCall.s_in_net THEN NewCall.dest ELSE NewCall.src
             IN  /\ DOMAIN machines' = DOMAIN machines \cup {inside}
                 /\ outside \notin DOMAIN machines'
       /\ \A h \in DOMAIN machines' :
             \E i \in 1..Len(log') :
                 \/ log'[i].src = h /\ log'[i].s_in_net
                 \/ log'[i].dest = h /\ log'[i].d_in_net]_vars

\* One call, its source alone in the network, has registered the source.
C6_Witness ==
    /\ Len(log) = 1
    /\ log[1].s_in_net /\ ~log[1].d_in_net
    /\ log[1].src # log[1].dest
    /\ Registered = {log[1].src}

(***************************************************************************)
(* C7.  A query for which the data does not suffice ends with an error     *)
(* that says so, not with a fault of another kind and not with a returned  *)
(* value: get_elapsed_time_sent and get_elapsed_time_received of a         *)
(* direction that was never updated, get_packet_len_std_dev of fewer than  *)
(* two lengths, get_mean_packet_len of none.  The machines are those that  *)
(* analyze_pcap alone has filled.                                          *)
(***************************************************************************)
InsufficientData(r) == r.kind = "raise" /\ r.value = <<"StatisticsError">>

C7_InsufficientData ==
    /\ (\A i \in Calls : log[i].caller = "analyze_pcap") => \A h \in Registered :
         LET node == machines[h]
         IN  /\ node.time_record.first_sent = None =>
                  InsufficientData(get_flow_duration(node, "sent"))
             /\ node.time_record.first_received = None =>
                  InsufficientData(get_flow_duration(node, "received"))
             /\ Len(node.packet_lengths) < 2 =>
                  InsufficientData(get_packet_len_std_dev(node))
    /\ \A h \in Addr : InsufficientData(get_mean_packet_len(MachineNode(h)))

(***************************************************************************)
(* C8.  In every step, a first_sent that is set stays as it is, and so     *)
(* does a first_received; and after a call that updates the time record,   *)
(* last_sent of the source (last_received of the destination) is the time  *)
(* of that call, whether or not it is later than the previous one.         *)
(***************************************************************************)
C8_FirstFixedLastLatest ==
    [][/\ \A h \in DOMAIN machines :
             LET tr == machines[h].time_record
             IN  /\ h \in DOMAIN machines'
                 /\ Truthy(tr.first_sent) =>
                      machines'[h].time_record.first_sent = tr.first_sent
                 /\ Truthy(tr.first_received) =>
                      machines'[h].time_record.first_received = tr.first_received
       /\ (Called /\ HasStamp(NewCall.pcap)) =>
             LET ts == <<NewCall.pcap.date, NewCall.pcap.time>>
             IN  /\ NewCall.s_in_net =>
                      machines'[NewCall.src].time_record.last_sent = ts
                 /\ NewCall.d_in_net =>
                      machines'[NewCall.dest].time_record.last_received = ts]_vars

\* Three packets sent by one machine, the last one earlier than the first.
C8_Witness ==
    \E h \in Registered :
        /\ SumCounts(machines[h].machines_sent_to) = 3
        /\ machines[h].time_record.first_sent = <<2, 0>>
        /\ machines[h].time_record.last_sent = <<1, 1>>

(***************************************************************************)
(* C9.  For a machine that has sent, get_elapsed_time_sent returns the     *)
(* time of its most recent sent packet minus the time of its first sent    *)
(* packet, as whole days and a remainder within the day: zero after one    *)
(* packet, negative when the most recent packet is earlier than the first. *)
(* The same for get_elapsed_time_received and the packets received.        *)
(***************************************************************************)
SentCalls(h) == {i \in Calls : log[i].src = h /\ log[i].s_in_net}

ReceivedCalls(h) == {i \in Calls : log[i].dest = h /\ log[i].d_in_net}

First(S) == CHOOSE i \in S : \A j \in S : i <= j

Latest(S) == CHOOSE i \in S : \A j \in S : i >= j

Ticks(pcap) == pcap.date * TicksPerDay + pcap.time

IsSpan(r, S) ==
    LET d == Ticks(log[Latest(S)].pcap) - Ticks(log[First(S)].pcap)
    IN  /\ r.kind = "return"
        /\ r.value[2] \in 0..(TicksPerDay - 1)
        /\ r.value[1] * TicksPerDay + r.value[2] = d
        /\ Cardinality(S) = 1 => r.value = <<0, 0>>
        /\ d < 0 <=> r.value[1] < 0

Yields(pairs, p, n) ==
    /\ n > 0 => <<p, n>> \in pairs
    /\ Cardinality({q \in pairs : q[1] = p}) = IF n > 0 THEN 1 ELSE 0

C10_PeerFrequencies ==
    \A h \in Registered, p \in Addr :
        /\ Yields(get_machines_sent_to(machines[h]), p,
                  Cardinality({i \in SentCalls(h) : log[i].dest = p}))
        /\ Yields(get_machines_received_from(machines[h]), p,
                  Cardinality({i \in ReceivedCalls(h) : log[i].src = p}))

\* A machine has sent three packets to one address and none to another.
C10_Witness ==
    \E h \in Registered, p \in Addr :
        get_machines_sent_to(machines[h]) = {<<p, 3>>}

(***************************************************************************)
(* C11.  A step of get_machine_node leaves machines as it was: it returns  *)
(* the node of the address when the address is registered, and None        *)
(* otherwise, without making an entry for the address; and None is the     *)
(* node of no registered address.                                          *)
(***************************************************************************)
Asked == answer' # answer

C11_GetIsPure ==
    [][Asked =>
         /\ machines' = machines
         /\ answer'.addr \in DOMAIN machines => answer'.value = machines[answer'.addr]
         /\ answer'.addr \notin DOMAIN machines =>
              /\ answer'.value = None
              /\ answer'.addr \notin DOMAIN machines'
         /\ \A h \in DOMAIN machines : machines[h] # None]_vars

\* A query for an address that is not registered, while another is.
C11_Witness ==
    /\ answer.op = "get_machine_node"
    /\ answer.value = None
    /\ Registered # {}
    /\ answer.addr \notin Registered

(***************************************************************************)
(* C12.  Each packet is routed by the list of network machines as it is    *)
(* when analyze_pcap handles it: the flags of the call are the membership  *)
(* of the two addresses in network_machines at that step, whatever the     *)
(* flow has recorded for them, and the machines after the step are those   *)
(* that update gives with these flags.  A step that adds an address to the *)
(* list or removes one changes no node and no entry of machines, so what   *)
(* was recorded for an address that is removed later stays.                *)
(***************************************************************************)
C12_PointInTime ==
    [][/\ network_machines' # network_machines => machines' = machines
       /\ (Called /\ NewCall.caller = "analyze_pcap") =>
            /\ NewCall.s_in_net = (NewCall.src \in network_machines)
            /\ NewCall.d_in_net = (NewCall.dest \in network_machines)
            /\ machines' = update(machines,
                                  NewCall.src, NewCall.src \in network_machines,
                                  NewCall.dest, NewCall.dest \in network_machines,
                                  NewCall.length, NewCall.pcap).machines]_vars

\* Two packets of one source, recorded as sent while the source was in the
\* network and not after it was removed; the first record is still there.
C12_Witness ==
    /\ Len(log) = 2
    /\ \A i \in Calls : log[i].caller = "analyze_pcap" /\ log[i].exc = NoExc
    /\ log[1].src = log[2].src
    /\ log[1].s_in_net /\ ~log[2].s_in_net
    /\ log[1].src \notin network_machines
    /\ log[1].src \in Registered
    /\ SentTo(machines, log[1].src, log[1].dest) = 1

(***************************************************************************)
(* C14.  Across every step the flow only grows: an address that has a node *)
(* keeps it, the num_packets of a node and each of its counts per peer     *)
(* never get smaller, and the packet_lengths of a node before the step are *)
(* a prefix of its packet_lengths after the step.                          *)
(***************************************************************************)
IsPrefix(s, t) == Len(s) <= Len(t) /\ SubSeq(t, 1, Len(s)) = s

C14_OnlyGrows ==
    [][\A h \in DOMAIN machines :
         /\ h \in DOMAIN machines'
         /\ machines'[h].num_packets >= machines[h].num_packets
         /\ \A p \in Addr :
              /\ SentTo(machines', h, p) >= SentTo(machines, h, p)
              /\ ReceivedFrom(machines', h, p) >= ReceivedFrom(machines, h, p)
         /\ IsPrefix(machines[h].packet_lengths, machines'[h].packet_lengths)]_vars

\* A node with two records of different lengths, the second one made by a
\* later call than the first.
C14_Witness ==
    /\ Len(log) = 2
    /\ \E h \in Registered :
         /\ machines[h].packet_lengths = <<log[1].length, log[2].length>>
         /\ log[1].length # log[2].length
         /\ \E p \in Addr : SentTo(machines, h, p) = 2

(***************************************************************************)
(* C17.  A call of update changes the nodes of its own two addresses only: *)
(* every address other than src_addr and dest_addr has after the call the  *)
(* node it had before, and none if it had none.  An address for which the  *)
(* call makes no record keeps its node as well.  A record of a packet sent *)
(* leaves the machines_received_from, first_received and last_received of  *)
(* the source as they were, and a record of a packet received leaves the   *)
(* machines_sent_to, first_sent and last_sent of the destination as they   *)
(* were.                                                                   *)
(***************************************************************************)
NodeOf(ms, h) == IF h \in DOMAIN ms THEN ms[h] ELSE MachineNode(h)

ReceivedSide(ms, h) ==
    <<NodeOf(ms, h).machines_received_from,
      NodeOf(ms, h).time_record.first_received,
      NodeOf(ms, h).time_record.last_received>>

SentSide(ms, h) ==
    <<NodeOf(ms, h).machines_sent_to,
      NodeOf(ms, h).time_record.first_sent,
      NodeOf(ms, h).time_record.last_sent>>

SameNode(h) ==
    /\ (h \in DOMAIN machines') = (h \in DOMAIN machines)
    /\ h \in DOMAIN machines => machines'[h] = machines[h]

C17_OnlyOwnEndpoints ==
    [][Called =>
         /\ \A h \in Addr \ {NewCall.src, NewCall.dest} : SameNode(h)
         /\ (~NewCall.s_in_net /\ NewCall.src # NewCall.dest) => SameNode(NewCall.src)
         /\ (~NewCall.d_in_net /\ NewCall.src # NewCall.dest) => SameNode(NewCall.dest)
         /\ (NewCall.s_in_net /\ ~(NewCall.d_in_net /\ NewCall.src = NewCall.dest)) =>
              ReceivedSide(machines', NewCall.src) = ReceivedSide(machines, NewCall.src)
         /\ (NewCall.d_in_net /\ ~(NewCall.s_in_net /\ NewCall.src = NewCall.dest)) =>
              SentSide(machines', NewCall.dest) = SentSide(machines, NewCall.dest)]_vars

\* A packet between two network machines, recorded with its time at both,
\* while a third address has a node and the destination has sent before.
C17_Witness ==
    /\ Len(log) = 2
    /\ log[2].s_in_net /\ log[2].d_in_net
    /\ log[2].src # log[2].dest
    /\ log[2].exc = NoExc /\ HasStamp(log[2].pcap)
    /\ Registered \ {log[2].src, log[2].dest} # {}
    /\ Truthy(NodeOf(machines, log[2].dest).time_record.last_sent)
    /\ Truthy(NodeOf(machines, log[2].dest).time_record.last_received)

(***************************************************************************)
(* C16.  After any calls of update, first_sent and last_sent of a node are *)
(* set exactly when the node has a sent record of a call that passed a     *)
(* packet record with its date and time; first_sent is the time of the     *)
(* first such record and last_sent the time of the most recent one.  A     *)
(* record made with no packet record, or with one that lacks date or time, *)
(* is counted in machines_sent_to and leaves the times as they were.  The  *)
(* same for first_received, last_received and the records received.        *)
(***************************************************************************)
StampedSent(h) == {i \in SentCalls(h) : HasStamp(log[i].pcap)}

StampedReceived(h) == {i \in ReceivedCalls(h) : HasStamp(log[i].pcap)}

StampOf(i) == Format(log[i].pcap.date, log[i].pcap.time)

RECURSIVE RecordLengths(_, _)
RecordLengths(h, i) ==
    IF i = 0
    THEN <<>>
    ELSE LET e == log[i]
             sent == IF e.src = h /\ e.s_in_net
                     THEN Append(RecordLengths(h, i - 1), e.length)
                     ELSE RecordLengths(h, i - 1)
         IN  IF e.dest = h /\ e.d_in_net THEN Append(sent, e.length) ELSE sent

C18_LengthsInOrder ==
    \A h \in Addr :
        LET ls == RecordLengths(h, Len(log))
            n == Len(ls)
        IN  /\ NodeOf(machines, h).packet_lengths = ls
            /\ n > 0 => h \in Registered
            /\ (h \in Registered /\ n >= 1) =>
                 get_mean_packet_len(machines[h]) =
                     [kind |-> "return", value |-> <<SumSeq(ls), n>>]
            /\ (h \in Registered /\ n >= 2) =>
                 get_packet_len_std_dev(machines[h]) =
                     [kind |-> "return",
                      value |-> <<n * SumSquares(ls) - SumSeq(ls) * SumSeq(ls),
                                  n * (n - 1)>>]

\* A node with a record received between two records sent, of lengths that
\* differ.
C18_Witness ==
    /\ Len(log) = 3
    /\ \E h \in Registered :
         /\ SentCalls(h) = {1, 3}
         /\ ReceivedCalls(h) = {2}
         /\ machines[h].packet_lengths = <<1, 2, 2>>

(***************************************************************************)
(* C19.  Under a fixed list of network machines and after any number of    *)
(* packets handled to the end, for all network machines A and B the count  *)
(* A keeps of packets sent to B is the count B keeps of packets received   *)
(* from A, a missing node or entry counting as 0.                          *)
(***************************************************************************)
C19_SentIsReceived ==
    \A A \in network_machines, B \in network_machines :
        SentTo(machines, A, B) = ReceivedFrom(machines, B, A)

\* Two packets from one network machine to another, one the other way, and
\* no packet of a machine to itself.
C19_Witness ==
    \E A \in network_machines, B \in network_machines :
        /\ A # B
        /\ SentTo(machines, A, B) = 2
        /\ ReceivedFrom(machines, B, A) = 2
        /\ SentTo(machines, B, A) = 1
        /\ network_machines # Addr

(***************************************************************************)
(* C13.  While a packet is being recorded, whoever reads the node of an    *)
(* address sees it whole: in every state, between the statements of a call *)
(* as well, num_packets of a node is the number of its packet_lengths and  *)
(* the sum of its counts of packets sent and received, and a node that     *)
(* counts a packet sent (received) has the time of a packet sent           *)
(* (received).  Stated for the histories in which no call has raised.      *)
(***************************************************************************)
C13_ConsistentSnapshot ==
    (\A i \in Calls : log[i].exc = NoExc) =>
        \A h \in Registered :
            LET node == machines[h]
            IN  /\ node.num_packets = Len(node.packet_lengths)
                /\ node.num_packets =
                      SumCounts(node.machines_sent_to)
                      + SumCounts(node.machines_received_from)
                /\ SumCounts(node.machines_sent_to) > 0 =>
                      Truthy(node.time_record.last_sent)
                /\ SumCounts(node.machines_received_from) > 0 =>
                      Truthy(node.time_record.last_received)

(***************************************************************************)
(* C15.  A node that update makes for an address without node gets its     *)
(* record as a local and enters machines after add_pcap_record has         *)
(* returned: it enters with exactly one record, while it is being written  *)
(* its address has no entry, and when add_pcap_record raises it does not   *)
(* enter at all.  The node of an address that has one is changed where it  *)
(* is: the entry stays, with its address, and none of its counts gets      *)
(* smaller.  So every node in machines has at least one record.            *)
(***************************************************************************)
C15_InsertAfterRecord ==
    [][/\ \A h \in DOMAIN machines' \ DOMAIN machines :
            /\ machines'[h].num_packets = 1
            /\ Len(machines'[h].packet_lengths) = 1
            /\ SumCounts(machines'[h].machines_sent_to)
                 + SumCounts(machines'[h].machines_received_from) = 1
            /\ pc = "L236" /\ frame.fresh /\ h = ThisAddr
       /\ \A h \in DOMAIN machines :
            /\ h \in DOMAIN machines'
            /\ machines'[h].machine_addr = h
            /\ machines'[h].num_packets >= machines[h].num_packets
            /\ IsPrefix(machines[h].packet_lengths, machines'[h].packet_lengths)
            /\ \A p \in Addr :
                 /\ SentTo(machines', h, p) >= SentTo(machines, h, p)
                 /\ ReceivedFrom(machines', h, p) >= ReceivedFrom(machines, h, p)
       /\ (pc # "idle" /\ frame.fresh /\ pc # "L236") => ThisAddr \notin DOMAIN machines'
       /\ \A h \in DOMAIN machines' : machines'[h].num_packets >= 1]_vars

\* A new node holds its record and is about to enter machines, next to a
\* node that is there already.
C15_Witness ==
    /\ pc = "L236"
    /\ frame.fresh
    /\ frame.node.num_packets = 1
    /\ ThisAddr \notin Registered
    /\ Registered # {}

\* C15 as the specification has it: a node that has a record is in machines.
C15_Original ==
    pc # "idle" => (Node.num_packets > 0 => ThisAddr \in Registered)

\* The statements of a call, run one by one, leave what update leaves.
StepsMakeUpdate ==
    [][(pc # "idle" /\ pc' = "idle") =>
         LET r == update(frame.start, frame.src_addr, frame.s_in_net,
                         frame.dest_addr, frame.d_in_net, frame.length, frame.pcap)
         IN  /\ machines' = r.machines
             /\ raised' = r.exc
             /\ NewCall.exc = r.exc]_vars

====
